---- MODULE Spec2Model ----
(***************************************************************************)
(* A model of the orchestration core of the sidecar agent:                 *)
(*   - the SymbolManager mailbox and its single dispatch loop              *)
(*     (agentic/symbol/manager.rs, SymbolManager::new),                    *)
(*   - the outline filter (SymbolManager::grab_symbols_from_outline),      *)
(*   - the merge pass and the per-task resolution of                       *)
(*     SymbolManager::important_symbols,                                   *)
(*   - the cancellable streaming completion of SessionChatClient::invoke   *)
(*     (agentic/tool/session/chat.rs),                                     *)
(*   - the agent-creation fan-out of SymbolManager::initial_request.       *)
(* Each part has its own specification over the shared variables; the      *)
(* variables of the other parts stay at their idle values.                 *)
(***************************************************************************)
EXTENDS Integers, Sequences, FiniteSets, TLC

VARIABLES
    \* ---- mailbox (manager.rs 58-70) ----
    mailbox,      \* the unbounded channel: queue of (request, reply sender) pairs
    entry,        \* per request: NotSent / Queued / Dispatched / Completed / Failed
    reply,        \* per one-shot reply channel: the values signalled on it, in order
    current,      \* the event the dispatch loop holds ("event" of line 67), or NoEvent
    waiting,      \* per caller: the request whose reply it is blocked on, or 0
    submitted,    \* history: requests in the order they were enqueued
    dequeued,     \* history: requests in the order recv() returned them
    \* ---- outline filter (manager.rs 242-277) ----
    fOutline,     \* argument outline_nodes
    fName,        \* argument symbol_name
    fResult,      \* returned Vec<OutlineNodeContent>
    fPc,          \* "call" before the call, "ret" after it, "idle" when unused
    \* ---- important_symbols (manager.rs 283-429) ----
    ordered_symbols,      \* important_symbols.ordered_symbols()
    symbols,              \* important_symbols.symbols(), the raw hint list
    oi,                   \* next entry of ordered_symbols the first for_each visits
    ri,                   \* next entry of symbols the second for_each visits
    new_symbols,          \* HashSet<String>
    symbols_to_visit,     \* HashSet<String>
    final_code_snippets,  \* HashMap<String, MechaCodeSymbolThinking>: set of (key, value)
    merged,               \* history: the map as the resolution loop received it
    mecha_symbols,        \* Vec<MechaCodeSymbolThinking> being returned
    code_snippet,         \* the task of the current loop iteration, or NoTask
    outline_opt,          \* Option<Vec<OutlineNode>> fetched for the hinted file
    outline_nodes,        \* the direct matches of the current task
    find_in_file,         \* Option<Position> of the text search
    definition,           \* GoToDefinitionResponse: the definition locations
    parsed,               \* symbol broker: per file, Unknown / None / its outline
    log,                  \* history: the tool calls issued for the current task
    result,               \* "running", "Ok", an error kind, or "Panic"
    pc,                   \* position in important_symbols
    \* ---- SessionChatClient::invoke (chat.rs 266-320) ----
    cancellation_token,   \* TRUE once cancellation has been requested
    stream_completion,    \* the spawned provider call: "running" or its outcome
    written,              \* history: the messages the provider call sent, in order
    receiver,             \* the delta channel: messages sent and not yet received
    llm_response,         \* the wrapped producer: "pending", "Completed", "Cancelled"
    polling_llm_response, \* the consumer task: "running", "finished", "failed"
    answer_up_until_now,  \* the consumer's accumulated answer
    ui_sender,            \* history: the messages passed to ui_sender.send, in order
    ui_open,              \* the receiving end of the sink still exists
    ui_received,          \* the messages the sink's receiving end was handed
    cancel_point,         \* history: what had been written when cancel was requested
    chat_result,          \* what invoke returned, or Pending
    chat_pc,              \* position in invoke
    \* ---- SymbolManager::initial_request (manager.rs 82-110) ----
    symbol_requests,      \* Option of the Vec the resolution pass returned
    pulled,               \* how many of them stream::iter has handed out
    in_progress,          \* creations handed out and not yet run (by position)
    attempts,             \* history: create_symbol_agent calls and their outcomes
    agents,               \* the symbol agents the locker holds
    initial_result,       \* "running", "Ok" or the error initial_request returned
    initial_pc            \* position in initial_request

mvars == <<mailbox, entry, reply, current, waiting, submitted, dequeued>>
fvars == <<fOutline, fName, fResult, fPc>>
pvars == <<ordered_symbols, symbols, oi, ri, new_symbols, symbols_to_visit,
           final_code_snippets, merged, mecha_symbols, code_snippet, outline_opt,
           outline_nodes, find_in_file, definition, parsed, log, result, pc>>
svars == <<cancellation_token, stream_completion, written, receiver, llm_response,
           polling_llm_response, answer_up_until_now, ui_sender, ui_open,
           ui_received, cancel_point, chat_result, chat_pc>>
avars == <<symbol_requests, pulled, in_progress, attempts, agents, initial_result,
           initial_pc>>
vars == <<mvars, fvars, pvars, svars, avars>>

-----------------------------------------------------------------------------
(* Bounds *)

\* number of requests ever submitted to the mailbox
MaxRequests == 3
\* number of concurrent submitters
NumCallers == 2

\* outline nodes per file outline, members per container
MaxNodes == 2
MaxChildren == 2
\* entries of the ordered and of the raw hint list (merge pass)
MaxOrdered == 2
MaxRaw == 2
\* entries of the two hint lists in a whole pass (merge and resolution)
MaxPassOrdered == 2
MaxPassRaw == 1
\* definition locations a go-to-definition response holds
MaxDefs == 2
\* messages the provider call writes to the delta channel
MaxMessages == 3
\* tasks a resolution pass hands to the agent-creation fan-out
MaxTasks == 3

Requests == 1..MaxRequests
Callers == 1..NumCallers
NoEvent == [req |-> 0, tx |-> 0]

SeqsUpTo(S, n) == UNION {[1..k -> S] : k \in 0..n}

IsPrefix(s, t) == Len(s) <= Len(t) /\ SubSeq(t, 1, Len(s)) = s

-----------------------------------------------------------------------------
(* The mailbox *)

MailboxIdle ==
    /\ mailbox = <<>>
    /\ entry = [r \in Requests |-> "NotSent"]
    /\ reply = [r \in Requests |-> <<>>]
    /\ current = NoEvent
    /\ waiting = [c \in Callers |-> 0]
    /\ submitted = <<>>
    /\ dequeued = <<>>

\* submit(request): the caller creates a one-shot channel, sends the pair
\* (request, reply sender) on the unbounded channel and blocks on the receiver.
\* The one-shot channel of request r is identified by r.
Submit(c, r) ==
    /\ waiting[c] = 0
    /\ entry[r] = "NotSent"
    /\ \A q \in Requests : q < r => entry[q] # "NotSent"
    /\ mailbox' = Append(mailbox, [req |-> r, tx |-> r])
    /\ entry' = [entry EXCEPT ![r] = "Queued"]
    /\ waiting' = [waiting EXCEPT ![c] = r]
    /\ submitted' = Append(submitted, r)
    /\ UNCHANGED <<reply, current, dequeued>>

\* The caller's await on its one-shot receiver completes once a value is there.
CallerRecv(c) ==
    /\ waiting[c] # 0
    /\ reply[waiting[c]] # <<>>
    /\ waiting' = [waiting EXCEPT ![c] = 0]
    /\ UNCHANGED <<mailbox, entry, reply, current, submitted, dequeued>>

\* `while let Some(event) = receier.recv().await`: the loop takes the head of
\* the channel; it is back at recv() only when process_request has returned.
RecvPriority ==
    /\ current = NoEvent
    /\ mailbox # <<>>
    /\ current' = mailbox[Len(mailbox)]
    /\ mailbox' = SubSeq(mailbox, 1, Len(mailbox) - 1)
    /\ entry' = [entry EXCEPT ![mailbox[Len(mailbox)].req] = "Dispatched"]
    /\ dequeued' = Append(dequeued, mailbox[Len(mailbox)].req)
    /\ UNCHANGED <<reply, waiting, submitted>>

RecvAndComplete ==
    /\ current = NoEvent
    /\ mailbox # <<>>
    /\ mailbox' = Tail(mailbox)
    /\ entry' = [entry EXCEPT ![Head(mailbox).req] = "Completed"]
    /\ reply' = [reply EXCEPT ![Head(mailbox).tx] =
                    Append(@, [for |-> Head(mailbox).req, outcome |-> "ok"])]
    /\ dequeued' = Append(dequeued, Head(mailbox).req)
    /\ UNCHANGED <<current, waiting, submitted>>

RecvParallel ==
    /\ mailbox # <<>>
    /\ current' = Head(mailbox)
    /\ mailbox' = Tail(mailbox)
    /\ entry' = [entry EXCEPT ![Head(mailbox).req] = "Dispatched"]
    /\ dequeued' = Append(dequeued, Head(mailbox).req)
    /\ UNCHANGED <<reply, waiting, submitted>>

LoopRecv ==
    /\ current = NoEvent
    /\ mailbox # <<>>
    /\ current' = Head(mailbox)
    /\ mailbox' = Tail(mailbox)
    /\ entry' = [entry EXCEPT ![Head(mailbox).req] = "Dispatched"]
    /\ dequeued' = Append(dequeued, Head(mailbox).req)
    /\ UNCHANGED <<reply, waiting, submitted>>

\* SymbolLocker::process_request(event): owns the reply sender of the event and
\* signals it once, with the response on success and a failure value otherwise.
SilentFailure(event, ok) ==
    /\ reply' = IF ok
                THEN [reply EXCEPT ![event.tx] =
                         Append(@, [for |-> event.req, outcome |-> "ok"])]
                ELSE reply
    /\ entry' = [entry EXCEPT ![event.req] = IF ok THEN "Completed" ELSE "Failed"]

process_request(event, ok) ==
    /\ reply' = [reply EXCEPT ![event.tx] =
                    Append(@, [for |-> event.req,
                               outcome |-> IF ok THEN "ok" ELSE "err"])]
    /\ entry' = [entry EXCEPT ![event.req] = IF ok THEN "Completed" ELSE "Failed"]

DropEvent ==
    /\ current # NoEvent
    /\ current' = NoEvent
    /\ UNCHANGED <<mailbox, entry, reply, waiting, submitted, dequeued>>

\* `let _ = cloned_symbol_locker.process_request(event).await;`: the result is
\* discarded and the loop goes back to recv().
LoopProcess ==
    /\ current # NoEvent
    /\ \E ok \in BOOLEAN : process_request(current, ok)
    /\ current' = NoEvent
    /\ UNCHANGED <<mailbox, waiting, submitted, dequeued>>

-----------------------------------------------------------------------------
(* The outline filter *)

Names == {"Foo", "Bar"}
Files == {"a.rs", "b.rs"}

\* The shape of a declaration as the parser sees it: a container (is_class)
\* with its members' names, or a leaf declaration without members.
NodeShapes ==
    [is_class : {TRUE}, name : Names, children : SeqsUpTo(Names, MaxChildren)]
        \cup [is_class : {FALSE}, name : Names, children : {<<>>}]

OutlineShapes == SeqsUpTo(NodeShapes, MaxNodes)

\* OutlineNodeContent {name, range, fs_file_path}. The range of a declaration
\* is its place in the file: <<i, 0>> is the i-th top-level node, <<i, k>> the
\* k-th member of the i-th node.
Content(name, range, file) ==
    [name |-> name, range |-> range, fs_file_path |-> file]

\* The outline (Vec<OutlineNode>) of a file whose declarations have `shape`.
OutlineOf(shape, file) ==
    [i \in 1..Len(shape) |->
        [is_class |-> shape[i].is_class,
         content |-> Content(shape[i].name, <<i, 0>>, file),
         children |-> [k \in 1..Len(shape[i].children) |->
                          Content(shape[i].children[k], <<i, k>>, file)]]]

AllMembers(contents, symbol_name) == contents

\* `.filter(|node| node.name() == symbol_name)` over a container's members
RECURSIVE FilterByName(_, _)
FilterByName(contents, symbol_name) ==
    IF contents = <<>> THEN <<>>
    ELSE (IF Head(contents).name = symbol_name THEN <<Head(contents)>> ELSE <<>>)
             \o FilterByName(Tail(contents), symbol_name)

\* the closure of filter_map: what one outline node contributes
MatchContainerAndMembers(node, symbol_name) ==
    IF node.is_class
    THEN (IF node.content.name = symbol_name THEN <<node.content>> ELSE <<>>)
             \o FilterByName(node.children, symbol_name)
    ELSE IF node.content.name = symbol_name THEN <<node.content>> ELSE <<>>

MatchNode(node, symbol_name) ==
    IF node.is_class
    THEN IF node.content.name = symbol_name
         THEN <<node.content>>
         ELSE FilterByName(node.children, symbol_name)
    ELSE IF node.content.name = symbol_name
         THEN <<node.content>>
         ELSE <<>>

\* filter_map(...).flatten().collect()
RECURSIVE grab_symbols_from_outline(_, _)
grab_symbols_from_outline(nodes, symbol_name) ==
    IF nodes = <<>> THEN <<>>
    ELSE MatchNode(Head(nodes), symbol_name)
             \o grab_symbols_from_outline(Tail(nodes), symbol_name)

FilterIdle ==
    /\ fOutline = <<>>
    /\ fName = ""
    /\ fResult = <<>>
    /\ fPc = "idle"

FilterInit ==
    /\ fOutline \in {OutlineOf(sh, "a.rs") : sh \in OutlineShapes}
    /\ fName \in Names
    /\ fResult = <<>>
    /\ fPc = "call"

FilterCall ==
    /\ fPc = "call"
    /\ fResult' = grab_symbols_from_outline(fOutline, fName)
    /\ fPc' = "ret"
    /\ UNCHANGED <<fOutline, fName>>

-----------------------------------------------------------------------------
(* important_symbols: the merge pass *)

\* CodeSymbolWithSteps (code_symbol, steps, is_new, file_path)
StepChoices == {<<"s1">>, <<"s2">>}
OrderedEntries ==
    [code_symbol : Names, is_new : BOOLEAN, file_path : Files, steps : StepChoices]

\* CodeSymbolWithThinking (code_symbol, thinking); its file_path is never read
\* by important_symbols.
RawEntries == [code_symbol : Names, thinking : {"t1", "t2"}]

\* Option<T>: None is the empty sequence, Some(x) the sequence of x alone
None == <<>>
Some(x) == <<x>>

NoTask == [symbol_name |-> "", steps |-> <<>>, is_new |-> FALSE,
           fs_file_path |-> "", snippet |-> None, implementations |-> <<>>]

\* MechaCodeSymbolThinking::new(symbol_name, steps, is_new, file_path, None, vec![])
NewThinking(symbol_name, steps, is_new, file_path) ==
    [symbol_name |-> symbol_name, steps |-> steps, is_new |-> is_new,
     fs_file_path |-> file_path, snippet |-> None, implementations |-> <<>>]

\* MechaCodeSymbolThinking::add_step
add_step(task, step) == [task EXCEPT !.steps = Append(@, step)]

\* MechaCodeSymbolThinking::set_snippet
set_snippet(task, snippet) == [task EXCEPT !.snippet = Some(snippet)]

InsertKeepingOld(map, key, value) == map \cup {[key |-> key, value |-> value]}

InsertExtendingSteps(map, key, value) ==
    {e \in map : e.key # key} \cup
        {[key |-> key,
          value |-> [value EXCEPT !.steps =
                        IF \E e \in map : e.key = key
                        THEN (CHOOSE e \in map : e.key = key).value.steps \o @
                        ELSE @]]}

\* HashMap::insert: the value of an existing key is replaced
HashMapInsert(map, key, value) ==
    {e \in map : e.key # key} \cup {[key |-> key, value |-> value]}

\* `if let Some(code_snippet) = map.get_mut(key) { code_snippet.add_step(step) }`
EntryOrInsertAddStep(map, key, step) ==
    IF \E e \in map : e.key = key
    THEN {IF e.key = key THEN [e EXCEPT !.value = add_step(@, step)] ELSE e : e \in map}
    ELSE map \cup {[key |-> key, value |-> NewThinking(key, <<step>>, FALSE, "a.rs")]}

GetMutAddStep(map, key, step) ==
    {IF e.key = key THEN [key |-> e.key, value |-> add_step(e.value, step)] ELSE e :
        e \in map}

Keys(map) == {e.key : e \in map}

\* The three collections the merge pass builds.
EmptyMerge == [new_symbols |-> {}, symbols_to_visit |-> {}, final_code_snippets |-> {}]

\* body of ordered_symbols.iter().for_each
OrderedEntry(m, ordered_symbol) ==
    LET code_symbol == ordered_symbol.code_symbol IN
    IF ordered_symbol.is_new
    THEN [m EXCEPT
            !.new_symbols = @ \cup {code_symbol},
            !.final_code_snippets =
                HashMapInsert(@, code_symbol,
                    NewThinking(code_symbol, ordered_symbol.steps, TRUE,
                                ordered_symbol.file_path))]
    ELSE [m EXCEPT
            !.symbols_to_visit = @ \cup {code_symbol},
            !.final_code_snippets =
                HashMapInsert(@, code_symbol,
                    NewThinking(code_symbol, ordered_symbol.steps, FALSE,
                                ordered_symbol.file_path))]

\* body of symbols.iter().for_each
RawEntryFirstVisitOnly(m, symbol) ==
    IF symbol.code_symbol \notin m.new_symbols
    THEN [m EXCEPT
            !.symbols_to_visit = @ \cup {symbol.code_symbol},
            !.final_code_snippets =
                IF symbol.code_symbol \in m.symbols_to_visit
                THEN @
                ELSE GetMutAddStep(@, symbol.code_symbol, symbol.thinking)]
    ELSE m

RawEntry(m, symbol) ==
    IF symbol.code_symbol \notin m.new_symbols
    THEN [m EXCEPT
            !.symbols_to_visit = @ \cup {symbol.code_symbol},
            !.final_code_snippets =
                GetMutAddStep(@, symbol.code_symbol, symbol.thinking)]
    ELSE m

RECURSIVE FoldOrdered(_, _)
FoldOrdered(m, entries) ==
    IF entries = <<>> THEN m
    ELSE FoldOrdered(OrderedEntry(m, Head(entries)), Tail(entries))

RECURSIVE FoldRaw(_, _)
FoldRaw(m, entries) ==
    IF entries = <<>> THEN m
    ELSE FoldRaw(RawEntry(m, Head(entries)), Tail(entries))

\* lines 290-332 as a function of the two hint lists
MergePass(ordered, raw) == FoldRaw(FoldOrdered(EmptyMerge, ordered), raw)

\* What the symbol broker holds for a file: nothing yet (Unknown), or the
\* result of parsing it, which is no outline (None) or the file's outline.
Unknown == [known |-> FALSE, shape |-> None]
Parsed(shape_opt) == [known |-> TRUE, shape |-> shape_opt]

MergeState ==
    [new_symbols |-> new_symbols, symbols_to_visit |-> symbols_to_visit,
     final_code_snippets |-> final_code_snippets]

PassIdle ==
    /\ ordered_symbols = <<>>
    /\ symbols = <<>>
    /\ oi = 0
    /\ ri = 0
    /\ new_symbols = {}
    /\ symbols_to_visit = {}
    /\ final_code_snippets = {}
    /\ merged = {}
    /\ mecha_symbols = <<>>
    /\ code_snippet = NoTask
    /\ outline_opt = None
    /\ outline_nodes = <<>>
    /\ find_in_file = None
    /\ definition = <<>>
    /\ parsed = [f \in Files |-> Unknown]
    /\ log = <<>>
    /\ result = "idle"
    /\ pc = "idle"

\* The state on entry of important_symbols(important_symbols), lines 287-292.
PassEntry(ordered, raw) ==
    /\ ordered_symbols = ordered
    /\ symbols = raw
    /\ oi = 1
    /\ ri = 1
    /\ new_symbols = {}
    /\ symbols_to_visit = {}
    /\ final_code_snippets = {}
    /\ merged = {}
    /\ mecha_symbols = <<>>
    /\ code_snippet = NoTask
    /\ outline_opt = None
    /\ outline_nodes = <<>>
    /\ find_in_file = None
    /\ definition = <<>>
    /\ parsed = [f \in Files |-> Unknown]
    /\ log = <<>>
    /\ result = "running"
    /\ pc = "merge"

rvars == <<merged, mecha_symbols, code_snippet, outline_opt, outline_nodes,
           find_in_file, definition, parsed, log, result>>

\* one iteration of the first for_each (lines 293-322)
OrderedStep ==
    /\ pc = "merge"
    /\ oi <= Len(ordered_symbols)
    /\ LET m == OrderedEntry(MergeState, ordered_symbols[oi]) IN
        /\ new_symbols' = m.new_symbols
        /\ symbols_to_visit' = m.symbols_to_visit
        /\ final_code_snippets' = m.final_code_snippets
    /\ oi' = oi + 1
    /\ UNCHANGED <<ordered_symbols, symbols, ri, pc, rvars>>

\* one iteration of the second for_each (lines 323-332)
RawStep ==
    /\ pc = "merge"
    /\ oi > Len(ordered_symbols)
    /\ ri <= Len(symbols)
    /\ LET m == RawEntry(MergeState, symbols[ri]) IN
        /\ new_symbols' = m.new_symbols
        /\ symbols_to_visit' = m.symbols_to_visit
        /\ final_code_snippets' = m.final_code_snippets
    /\ ri' = ri + 1
    /\ UNCHANGED <<ordered_symbols, symbols, oi, pc, rvars>>

\* lines 334-336: the map is handed to the resolution loop
StartResolutionEarly ==
    /\ pc = "merge"
    /\ oi > Len(ordered_symbols)
    /\ merged' = final_code_snippets
    /\ mecha_symbols' = <<>>
    /\ pc' = "pick"
    /\ UNCHANGED <<ordered_symbols, symbols, oi, ri, new_symbols, symbols_to_visit,
                   final_code_snippets, code_snippet, outline_opt, outline_nodes,
                   find_in_file, definition, parsed, log, result>>

StartResolution ==
    /\ pc = "merge"
    /\ oi > Len(ordered_symbols)
    /\ ri > Len(symbols)
    /\ merged' = final_code_snippets
    /\ mecha_symbols' = <<>>
    /\ pc' = "pick"
    /\ UNCHANGED <<ordered_symbols, symbols, oi, ri, new_symbols, symbols_to_visit,
                   final_code_snippets, code_snippet, outline_opt, outline_nodes,
                   find_in_file, definition, parsed, log, result>>

-----------------------------------------------------------------------------
(* important_symbols: the per-task resolution *)

ToolOutcomes == {"Ok", "ToolError", "WrongToolOutput"}

\* The outlines the parser may produce for a file of the pass.
Leaf(name) == [is_class |-> FALSE, name |-> name, children |-> <<>>]
Class(name, members) == [is_class |-> TRUE, name |-> name, children |-> members]
ResolveShapes ==
    { <<>>,
      <<Leaf("Bar")>>,
      <<Class("Foo", <<"Foo", "Bar">>)>>,
      <<Class("Bar", <<"Foo", "Foo">>), Leaf("Foo")>> }
OutlineOptions == {None} \cup {Some(sh) : sh \in ResolveShapes}

\* Option<Vec<OutlineNode>> out of what the symbol broker holds for `file`
OutlineOption(shape_opt, file) ==
    IF shape_opt = None THEN None ELSE Some(OutlineOf(shape_opt[1], file))

Call(tool, file, ok) == [tool |-> tool, file |-> file, ok |-> ok]

\* Snippet::new(name, range, fs_file_path)
Snippet(name, range, file) == [name |-> name, range |-> range, fs_file_path |-> file]

\* `if outline_nodes.is_empty()` (line 368)
FallbackUnlessAmbiguous(nodes) == Len(nodes) <= 1

NeedsFallback(nodes) == nodes = <<>>

\* `.iter().find(|symbol| symbol.name() == symbol_name)` (lines 222-224)
RECURSIVE FindByName(_, _)
FindByName(contents, symbol_name) ==
    IF contents = <<>> THEN None
    ELSE IF Head(contents).name = symbol_name THEN Some(Head(contents))
    ELSE FindByName(Tail(contents), symbol_name)

\* `?` on a failed call: important_symbols returns the error
Abort(err) ==
    /\ result' = err
    /\ pc' = "done"
    /\ UNCHANGED <<mecha_symbols, code_snippet>>

\* `mecha_symbols.push(code_snippet)` (line 426) and the next loop iteration
PushReplacing(task) ==
    /\ mecha_symbols' = <<task>>
    /\ code_snippet' = NoTask
    /\ pc' = "pick"
    /\ UNCHANGED result

Push(task) ==
    /\ mecha_symbols' = Append(mecha_symbols, task)
    /\ code_snippet' = NoTask
    /\ pc' = "pick"
    /\ UNCHANGED result

mergevars == <<ordered_symbols, symbols, oi, ri, new_symbols, symbols_to_visit, merged>>

\* `for (_, mut code_snippet) in final_code_snippets.into_iter()` (line 336):
\* the map yields its entries in an unspecified order.
PickTask ==
    /\ pc = "pick"
    /\ \E e \in final_code_snippets :
          /\ code_snippet' = e.value
          /\ final_code_snippets' = final_code_snippets \ {e}
    /\ outline_opt' = None
    /\ outline_nodes' = <<>>
    /\ find_in_file' = None
    /\ definition' = <<>>
    /\ log' = <<>>
    /\ pc' = "open"
    /\ UNCHANGED <<mergevars, mecha_symbols, parsed, result>>

\* lines 338-350: file_open of the hinted file, then add_document, which makes
\* the symbol broker parse the file (the same file parses to the same outline).
OpenHintedFile ==
    /\ pc = "open"
    /\ \E out \in ToolOutcomes :
          /\ log' = Append(log, Call("OpenFile", code_snippet.fs_file_path, out = "Ok"))
          /\ IF out = "Ok"
             THEN /\ \E o \in OutlineOptions :
                        parsed' = IF parsed[code_snippet.fs_file_path].known
                                  THEN parsed
                                  ELSE [parsed EXCEPT ![code_snippet.fs_file_path] =
                                           Parsed(o)]
                  /\ pc' = "outline"
                  /\ UNCHANGED <<result, mecha_symbols, code_snippet>>
             ELSE /\ Abort(out)
                  /\ UNCHANGED parsed
    /\ UNCHANGED <<mergevars, final_code_snippets, outline_opt, outline_nodes,
                   find_in_file, definition>>

\* lines 412-426: without an outline the task is pushed as it is (a task that
\* is not new is only reported with println)
FailUnresolved(task) == Abort("SymbolNotFound")

PushUnresolved(task) == Push(task)

\* `outline_nodes.remove(0)` (line 405): the match the snippet is built from
LastMatch(nodes) == nodes[Len(nodes)]

FirstMatch(nodes) == Head(nodes)

\* lines 353-368 and 400-426: get_symbols_outline of the hinted file, the
\* direct filter, and the branches that need no further call.
FetchOutline ==
    /\ pc = "outline"
    /\ LET file == code_snippet.fs_file_path
           opt == OutlineOption(parsed[file].shape, file)
           nodes == IF opt = None THEN <<>>
                    ELSE grab_symbols_from_outline(opt[1], code_snippet.symbol_name)
       IN
       /\ outline_opt' = opt
       /\ outline_nodes' = nodes
       /\ log' = Append(log, Call("GetOutline", file, opt # None))
       /\ IF opt = None
          THEN PushUnresolved(code_snippet)
          ELSE IF NeedsFallback(nodes)
          THEN /\ pc' = "reopen"
               /\ UNCHANGED <<mecha_symbols, code_snippet, result>>
          ELSE Push(set_snippet(code_snippet,
                        Snippet(FirstMatch(nodes).name, FirstMatch(nodes).range,
                                FirstMatch(nodes).fs_file_path)))
    /\ UNCHANGED <<mergevars, final_code_snippets, find_in_file, definition, parsed>>

\* lines 375-377: the hinted file is opened again
ReopenHintedFile ==
    /\ pc = "reopen"
    /\ \E out \in ToolOutcomes :
          /\ log' = Append(log, Call("OpenFile", code_snippet.fs_file_path, out = "Ok"))
          /\ IF out = "Ok"
             THEN /\ pc' = "find"
                  /\ UNCHANGED <<result, mecha_symbols, code_snippet>>
             ELSE Abort(out)
    /\ UNCHANGED <<mergevars, final_code_snippets, outline_opt, outline_nodes,
                   find_in_file, definition, parsed>>

\* lines 380-387 and 399: the text search; `.ok().flatten()` turns a failed
\* call into no position
FindInFile ==
    /\ pc = "find"
    /\ \E out \in ToolOutcomes, position \in {None, Some("P")} :
          /\ (out # "Ok" => position = None)
          /\ find_in_file' = position
          /\ log' = Append(log, Call("FindInFile", code_snippet.fs_file_path, out = "Ok"))
          /\ IF position # None
             THEN /\ pc' = "gtd"
                  /\ UNCHANGED <<result, mecha_symbols, code_snippet>>
             ELSE Push(code_snippet)
    /\ UNCHANGED <<mergevars, final_code_snippets, outline_opt, outline_nodes,
                   definition, parsed>>

\* A definition location of a GoToDefinitionResponse: the file and the range
\* the language server points at.
DefRanges == {<<1, 0>>, <<2, 0>>}
DefLocations(ranges) == [file : Files, range : ranges]

\* lines 388-390: go_to_definition at the position found; the response lists
\* definition locations out of `locations`
GoToDefinition(locations) ==
    /\ pc = "gtd"
    /\ \E out \in ToolOutcomes, defs \in SeqsUpTo(locations, MaxDefs) :
          /\ (out # "Ok" => defs = <<>>)
          /\ definition' = defs
          /\ log' = Append(log, Call("GoToDefinition", code_snippet.fs_file_path,
                                     out = "Ok"))
          /\ IF out = "Ok"
             THEN /\ pc' = "grab"
                  /\ UNCHANGED <<result, mecha_symbols, code_snippet>>
             ELSE Abort(out)
    /\ UNCHANGED <<mergevars, final_code_snippets, outline_opt, outline_nodes,
                   find_in_file, parsed>>

\* grab_symbol_content_from_definition, lines 205-206: remove(0) panics on an
\* empty list; the file of the first definition is opened (not add_document'ed)
SkipOpenDefinitionFile ==
    /\ pc = "grab"
    /\ IF definition = <<>>
       THEN Abort("Panic")
       ELSE /\ pc' = "def_outline"
            /\ UNCHANGED <<result, mecha_symbols, code_snippet>>
    /\ UNCHANGED <<mergevars, final_code_snippets, outline_opt, outline_nodes,
                   find_in_file, definition, parsed, log>>

OpenDefinitionFile ==
    /\ pc = "grab"
    /\ IF definition = <<>>
       THEN /\ Abort("Panic")
            /\ UNCHANGED log
       ELSE \E out \in ToolOutcomes :
               /\ log' = Append(log, Call("OpenFile", Head(definition).file, out = "Ok"))
               /\ IF out = "Ok"
                  THEN /\ pc' = "def_outline"
                       /\ UNCHANGED <<result, mecha_symbols, code_snippet>>
                  ELSE Abort(out)
    /\ UNCHANGED <<mergevars, final_code_snippets, outline_opt, outline_nodes,
                   find_in_file, definition, parsed>>

\* lines 225-233: the snippet of the declaration `symbol` found in the outline
\* of the file of the definition location `location`
SnippetAtDefinitionRange(symbol, location) ==
    Snippet(symbol.name, location.range, location.file)

SnippetOfDeclaration(symbol, location) ==
    Snippet(symbol.name, symbol.range, location.file)

\* grab_symbol_content_from_definition, lines 215-239, then lines 397-398 and
\* 426. A file the pass has not add_document'ed has an outline only if the
\* editor announced it to the symbol broker.
ResolveFromDefinition ==
    /\ pc = "def_outline"
    /\ LET file == Head(definition).file IN
       \E o \in OutlineOptions :
          /\ (parsed[file].known => o = parsed[file].shape)
          /\ parsed' = IF o = None THEN parsed
                        ELSE [parsed EXCEPT ![file] = Parsed(o)]
          /\ log' = Append(log, Call("GetOutline", file, o # None))
          /\ LET opt == OutlineOption(o, file)
                 found == IF opt = None THEN None
                          ELSE FindByName(
                                   grab_symbols_from_outline(opt[1],
                                       code_snippet.symbol_name),
                                   code_snippet.symbol_name)
             IN IF found = None
                THEN Abort("SymbolNotFound")
                ELSE Push(set_snippet(code_snippet,
                              SnippetOfDeclaration(found[1], Head(definition))))
    /\ UNCHANGED <<mergevars, final_code_snippets, outline_opt, outline_nodes,
                   find_in_file, definition>>

\* line 428: Ok(mecha_symbols)
Return ==
    /\ pc = "pick"
    /\ final_code_snippets = {}
    /\ result' = "Ok"
    /\ pc' = "done"
    /\ UNCHANGED <<mergevars, final_code_snippets, mecha_symbols, code_snippet,
                   outline_opt, outline_nodes, find_in_file, definition, parsed, log>>

-----------------------------------------------------------------------------
(* SessionChatClient::invoke: the cancellable streaming completion *)

\* the increments of text a provider streams; a text is the sequence of its
\* increments, the empty string the empty sequence
Deltas == {"a", "b"}
EmptyAnswer == <<>>

\* LLMClientCompletionResponse: the cumulative text and the increment
StreamMessage(answer, delta) == [answer_up_until_now |-> answer, delta |-> delta]

\* how the provider call ends: Ok(String) or Err(LLMClientError)
ProviderOutcomes == {"Ok", "Err"}

Pending == [kind |-> "Pending", reply |-> EmptyAnswer]
\* Ok(ToolOutput::context_driven_chat_reply(SessionChatClientResponse { reply }))
ChatReply(response) == [kind |-> "Ok", reply |-> response]
\* Err(ToolError::RetriesExhausted)
RetriesExhausted == [kind |-> "RetriesExhausted", reply |-> EmptyAnswer]

NoCancel == <<>>

ChatIdle ==
    /\ cancellation_token = FALSE
    /\ stream_completion = "idle"
    /\ written = <<>>
    /\ receiver = <<>>
    /\ llm_response = "pending"
    /\ polling_llm_response = "idle"
    /\ answer_up_until_now = EmptyAnswer
    /\ ui_sender = <<>>
    /\ ui_open = FALSE
    /\ ui_received = <<>>
    /\ cancel_point = NoCancel
    /\ chat_result = Pending
    /\ chat_pc = "idle"

\* lines 266-306: the channel exists, the provider call and the consumer are
\* spawned, invoke is about to await the wrapped producer
ChatEntry ==
    /\ cancellation_token = FALSE
    /\ stream_completion = "running"
    /\ written = <<>>
    /\ receiver = <<>>
    /\ llm_response = "pending"
    /\ polling_llm_response = "running"
    /\ answer_up_until_now = EmptyAnswer
    /\ ui_sender = <<>>
    /\ ui_open = TRUE
    /\ ui_received = <<>>
    /\ cancel_point = NoCancel
    /\ chat_result = Pending
    /\ chat_pc = "await_llm_response"

\* the cumulative text of the messages written so far
WrittenText == IF written = <<>> THEN EmptyAnswer
               ELSE written[Len(written)].answer_up_until_now

\* stream_completion(..., sender) sends one more message: the cumulative text
\* grown by one increment; the first message of a stream may carry no delta.
\* A send after the consumer dropped the receiver fails and changes nothing.
ProviderWrite ==
    /\ stream_completion = "running"
    /\ polling_llm_response = "running"
    /\ Len(written) < MaxMessages
    /\ \E d \in Deltas :
       \E delta \in {Some(d)} \cup (IF written = <<>> THEN {None} ELSE {}) :
          LET msg == StreamMessage(Append(WrittenText, d), delta)
          IN /\ written' = Append(written, msg)
             /\ receiver' = Append(receiver, msg)
    /\ UNCHANGED <<cancellation_token, stream_completion, llm_response,
                   polling_llm_response, answer_up_until_now, ui_sender, ui_open,
                   ui_received, cancel_point, chat_result, chat_pc>>

\* the provider call ends; its task drops the only sender, which closes the
\* delta channel
ProviderEnd ==
    /\ stream_completion = "running"
    /\ stream_completion' \in ProviderOutcomes
    /\ UNCHANGED <<cancellation_token, written, receiver, llm_response,
                   polling_llm_response, answer_up_until_now, ui_sender, ui_open,
                   ui_received, cancel_point, chat_result, chat_pc>>

\* the delta channel is closed once every sender is dropped
ClosedOnCancel == stream_completion # "running" \/ cancellation_token

ChannelClosed == stream_completion # "running"

\* a holder of the token requests cancellation (one way)
Cancel ==
    /\ chat_pc # "returned"
    /\ ~cancellation_token
    /\ cancellation_token' = TRUE
    /\ cancel_point' = Some([written |-> Len(written),
                             running |-> stream_completion = "running"])
    /\ UNCHANGED <<stream_completion, written, receiver, llm_response,
                   polling_llm_response, answer_up_until_now, ui_sender, ui_open,
                   ui_received, chat_result, chat_pc>>

\* the caller drops the receiving end of the sink
UiClose ==
    /\ chat_pc # "returned"
    /\ ui_open
    /\ ui_open' = FALSE
    /\ UNCHANGED <<cancellation_token, stream_completion, written, receiver,
                   llm_response, polling_llm_response, answer_up_until_now,
                   ui_sender, ui_received, cancel_point, chat_result, chat_pc>>

\* `let _ = ui_sender.send(UIEventWithID::chat_event(...))` (lines 298-303)
ForwardUntilCancelled(events, msg) ==
    IF cancellation_token THEN events ELSE Append(events, msg)

Forward(events, msg) == Append(events, msg)

\* line 297: `answer_up_until_now = stream_msg.answer_up_until_now().to_owned()`
AnswerUntilCancelled(answer, stream_msg) ==
    IF cancellation_token THEN answer ELSE stream_msg.answer_up_until_now

AnswerAfter(answer, stream_msg) == stream_msg.answer_up_until_now

\* lines 296-304: one iteration of `while let Some(stream_msg) = delta.next().await`
ConsumerRecv ==
    /\ polling_llm_response = "running"
    /\ receiver # <<>>
    /\ LET stream_msg == Head(receiver)
       IN /\ answer_up_until_now' = AnswerAfter(answer_up_until_now, stream_msg)
          /\ ui_sender' = Forward(ui_sender, stream_msg)
          /\ ui_received' = IF ui_open THEN Forward(ui_received, stream_msg)
                            ELSE ui_received
    /\ receiver' = Tail(receiver)
    /\ UNCHANGED <<cancellation_token, stream_completion, written, llm_response,
                   polling_llm_response, ui_open, cancel_point, chat_result, chat_pc>>

\* lines 296 and 305: delta.next() yields None on the closed, empty channel and
\* the task returns answer_up_until_now
ConsumerFinish ==
    /\ polling_llm_response = "running"
    /\ receiver = <<>>
    /\ ChannelClosed
    /\ polling_llm_response' = "finished"
    /\ UNCHANGED <<cancellation_token, stream_completion, written, receiver,
                   llm_response, answer_up_until_now, ui_sender, ui_open,
                   ui_received, cancel_point, chat_result, chat_pc>>

\* the consumer task panics or is aborted with the runtime: its join handle
\* will yield a JoinError, and its receiver is dropped with what it held
ConsumerAbort ==
    /\ polling_llm_response = "running"
    /\ chat_pc # "returned"
    /\ polling_llm_response' = "failed"
    /\ receiver' = <<>>
    /\ UNCHANGED <<cancellation_token, stream_completion, written, llm_response,
                   answer_up_until_now, ui_sender, ui_open, ui_received,
                   cancel_point, chat_result, chat_pc>>

\* line 310, `llm_response.await`: run_with_cancellation resolves with the
\* outcome of the provider call once it has ended, or early with the
\* cancellation outcome once the token is cancelled
AwaitLlmResponse ==
    /\ chat_pc = "await_llm_response"
    /\ \E outcome \in (IF stream_completion # "running" THEN {"Completed"} ELSE {})
                      \cup (IF cancellation_token THEN {"Cancelled"} ELSE {}) :
          llm_response' = outcome
    /\ chat_pc' = "await_polling"
    /\ UNCHANGED <<cancellation_token, stream_completion, written, receiver,
                   polling_llm_response, answer_up_until_now, ui_sender, ui_open,
                   ui_received, cancel_point, chat_result>>

\* line 312, `polling_llm_response.await` resolves when the task has ended
JoinWithoutWaiting == TRUE

ConsumerJoinable == polling_llm_response # "running"

\* lines 313-318: the match on the join result
PartialReplyOnJoinError(join, answer) == ChatReply(answer)

PropagateProviderError(join, answer) ==
    IF stream_completion = "Err" THEN [kind |-> "LLMClientError", reply |-> EmptyAnswer]
    ELSE IF join = "finished" THEN ChatReply(answer) ELSE RetriesExhausted

JoinResult(join, answer) ==
    IF join = "finished" THEN ChatReply(answer) ELSE RetriesExhausted

\* lines 312-319
AwaitPolling ==
    /\ chat_pc = "await_polling"
    /\ ConsumerJoinable
    /\ chat_result' = JoinResult(polling_llm_response, answer_up_until_now)
    /\ chat_pc' = "returned"
    /\ UNCHANGED <<cancellation_token, stream_completion, written, receiver,
                   llm_response, polling_llm_response, answer_up_until_now,
                   ui_sender, ui_open, ui_received, cancel_point>>

-----------------------------------------------------------------------------
(* SymbolManager::initial_request: the tool call, the resolution pass and the
   fan-out of agent creations *)

\* `.buffer_unordered(100)` (line 100)
BufferUnordered == 100

\* the names of the tasks a pass can return (one task per name)
AgentNames == {"Foo", "Bar", "Baz"}
TaskLists ==
    {l \in SeqsUpTo(AgentNames, MaxTasks) :
        \A i, j \in 1..Len(l) : i # j => l[i] # l[j]}

FanOutIdle ==
    /\ symbol_requests = None
    /\ pulled = 0
    /\ in_progress = {}
    /\ attempts = <<>>
    /\ agents = {}
    /\ initial_result = "running"
    /\ initial_pc = "idle"

\* line 82: initial_request is entered
FanOutEntry ==
    /\ symbol_requests = None
    /\ pulled = 0
    /\ in_progress = {}
    /\ attempts = <<>>
    /\ agents = {}
    /\ initial_result = "running"
    /\ initial_pc = "start"

InitialReturn(value) ==
    /\ initial_result' = value
    /\ initial_pc' = "done"

\* lines 83-90 and 104-109: without a tool input, or with a tool output that
\* is not ImportantSymbols, the function returns Ok(()); a failed tool call is
\* returned with `?`
InvokeTool ==
    /\ initial_pc = "start"
    /\ \E outcome \in {"NoToolInput", "ToolError", "OtherOutput", "ImportantSymbols"} :
          CASE outcome = "ToolError" -> InitialReturn("ToolError")
            [] outcome = "ImportantSymbols" ->
                  /\ initial_pc' = "resolve"
                  /\ UNCHANGED initial_result
            [] OTHER -> InitialReturn("Ok")
    /\ UNCHANGED <<symbol_requests, pulled, in_progress, attempts, agents>>

\* lines 91-94: `self.important_symbols(important_symbols).await.map_err(..)?`
ResolvePass ==
    /\ initial_pc = "resolve"
    /\ \/ \E err \in {"ToolError", "WrongToolOutput"} :
             /\ InitialReturn(err)
             /\ UNCHANGED symbol_requests
       \/ \E l \in TaskLists :
             /\ symbol_requests' = Some(l)
             /\ initial_pc' = "fanout"
             /\ UNCHANGED initial_result
    /\ UNCHANGED <<pulled, in_progress, attempts, agents>>

\* buffer_unordered takes the next creation future off stream::iter while
\* fewer than its ceiling are in progress (line 100)
PullUnbounded ==
    /\ initial_pc = "fanout"
    /\ pulled < Len(symbol_requests[1])
    /\ pulled' = pulled + 1
    /\ in_progress' = in_progress \cup {pulled + 1}
    /\ UNCHANGED <<symbol_requests, attempts, agents, initial_result, initial_pc>>

PullRequest ==
    /\ initial_pc = "fanout"
    /\ pulled < Len(symbol_requests[1])
    /\ Cardinality(in_progress) < BufferUnordered
    /\ pulled' = pulled + 1
    /\ in_progress' = in_progress \cup {pulled + 1}
    /\ UNCHANGED <<symbol_requests, attempts, agents, initial_result, initial_pc>>

\* line 98, `let _ = ...create_symbol_agent(symbol_request);`: the outcome of
\* the creation is dropped and the future of this request completes
AbortSiblingsOnFailure(creations, i, ok) == IF ok THEN creations \ {i} ELSE {}

CompleteCreation(creations, i, ok) == creations \ {i}

\* lines 97-99: one of the creations in progress runs, once the buffer is full
\* or the stream is exhausted; which one is not specified. `runnable` are the
\* creations the schedule may run next, `outcomes` what the creation may yield.
CreateAgent(runnable, outcomes) ==
    /\ initial_pc = "fanout"
    /\ pulled = Len(symbol_requests[1]) \/ Cardinality(in_progress) = BufferUnordered
    /\ \E i \in runnable, ok \in outcomes :
          /\ attempts' = Append(attempts, [task |-> symbol_requests[1][i], ok |-> ok])
          /\ agents' = IF ok THEN agents \cup {symbol_requests[1][i]} ELSE agents
          /\ in_progress' = CompleteCreation(in_progress, i, ok)
    /\ UNCHANGED <<symbol_requests, pulled, initial_result, initial_pc>>

\* lines 101-102 and 109: collect() ends when every creation has completed
\* and the function returns Ok(())
FanOutReturn ==
    /\ initial_pc = "fanout"
    /\ pulled = Len(symbol_requests[1])
    /\ in_progress = {}
    /\ InitialReturn("Ok")
    /\ UNCHANGED <<symbol_requests, pulled, in_progress, attempts, agents>>

-----------------------------------------------------------------------------
(* Specification of the mailbox *)

Init == MailboxIdle /\ FilterIdle /\ PassIdle /\ ChatIdle /\ FanOutIdle

Next ==
    \/ \E c \in Callers, r \in Requests : Submit(c, r) /\ UNCHANGED <<fvars, pvars, svars, avars>>
    \/ \E c \in Callers : CallerRecv(c) /\ UNCHANGED <<fvars, pvars, svars, avars>>
    \/ LoopRecv /\ UNCHANGED <<fvars, pvars, svars, avars>>
    \/ LoopProcess /\ UNCHANGED <<fvars, pvars, svars, avars>>

Spec == Init /\ [][Next]_vars

\* The dispatch loop is a spawned task of the runtime: it is scheduled whenever
\* it can take a step.
SpecFair ==
    /\ Init
    /\ [][Next]_vars
    /\ WF_vars(LoopRecv /\ UNCHANGED <<fvars, pvars, svars, avars>>)
    /\ WF_vars(LoopProcess /\ UNCHANGED <<fvars, pvars, svars, avars>>)

-----------------------------------------------------------------------------
(* Specification of the outline filter *)

OutlineInit == MailboxIdle /\ FilterInit /\ PassIdle /\ ChatIdle /\ FanOutIdle

OutlineNext == FilterCall /\ UNCHANGED <<mvars, pvars, svars, avars>>

OutlineSpec == OutlineInit /\ [][OutlineNext]_vars

-----------------------------------------------------------------------------
(* Specification of the merge pass of important_symbols *)

MergeInit ==
    /\ MailboxIdle
    /\ FilterIdle
    /\ ChatIdle
    /\ FanOutIdle
    /\ \E ordered \in SeqsUpTo(OrderedEntries, MaxOrdered),
          raw \in SeqsUpTo(RawEntries, MaxRaw) : PassEntry(ordered, raw)

MergeNext ==
    \/ OrderedStep /\ UNCHANGED <<mvars, fvars, svars, avars>>
    \/ RawStep /\ UNCHANGED <<mvars, fvars, svars, avars>>
    \/ StartResolution /\ UNCHANGED <<mvars, fvars, svars, avars>>

MergeSpec == MergeInit /\ [][MergeNext]_vars

-----------------------------------------------------------------------------
(* Specification of a whole pass of important_symbols *)

PassOrderedEntries ==
    [code_symbol : Names, is_new : BOOLEAN, file_path : Files, steps : {<<"s1">>}]
PassRawEntries == [code_symbol : Names, thinking : {"t1"}]

ResolveInit ==
    /\ MailboxIdle
    /\ FilterIdle
    /\ ChatIdle
    /\ FanOutIdle
    /\ \E ordered \in SeqsUpTo(PassOrderedEntries, MaxPassOrdered),
          raw \in SeqsUpTo(PassRawEntries, MaxPassRaw) : PassEntry(ordered, raw)

ResolveNext ==
    \/ OrderedStep /\ UNCHANGED <<mvars, fvars, svars, avars>>
    \/ RawStep /\ UNCHANGED <<mvars, fvars, svars, avars>>
    \/ StartResolution /\ UNCHANGED <<mvars, fvars, svars, avars>>
    \/ PickTask /\ UNCHANGED <<mvars, fvars, svars, avars>>
    \/ OpenHintedFile /\ UNCHANGED <<mvars, fvars, svars, avars>>
    \/ FetchOutline /\ UNCHANGED <<mvars, fvars, svars, avars>>
    \/ ReopenHintedFile /\ UNCHANGED <<mvars, fvars, svars, avars>>
    \/ FindInFile /\ UNCHANGED <<mvars, fvars, svars, avars>>
    \/ GoToDefinition(DefLocations({<<1, 0>>})) /\ UNCHANGED <<mvars, fvars, svars, avars>>
    \/ OpenDefinitionFile /\ UNCHANGED <<mvars, fvars, svars, avars>>
    \/ ResolveFromDefinition /\ UNCHANGED <<mvars, fvars, svars, avars>>
    \/ Return /\ UNCHANGED <<mvars, fvars, svars, avars>>

ResolveSpec == ResolveInit /\ [][ResolveNext]_vars

-----------------------------------------------------------------------------
(* Specification of the definition-lookup path: a pass over one hint, where
   go-to-definition answers with locations of any range in DefRanges *)

DefinitionInit ==
    /\ MailboxIdle
    /\ FilterIdle
    /\ ChatIdle
    /\ FanOutIdle
    /\ \E ordered_symbol \in PassOrderedEntries : PassEntry(<<ordered_symbol>>, <<>>)

DefinitionNext ==
    \/ OrderedStep /\ UNCHANGED <<mvars, fvars, svars, avars>>
    \/ StartResolution /\ UNCHANGED <<mvars, fvars, svars, avars>>
    \/ PickTask /\ UNCHANGED <<mvars, fvars, svars, avars>>
    \/ OpenHintedFile /\ UNCHANGED <<mvars, fvars, svars, avars>>
    \/ FetchOutline /\ UNCHANGED <<mvars, fvars, svars, avars>>
    \/ ReopenHintedFile /\ UNCHANGED <<mvars, fvars, svars, avars>>
    \/ FindInFile /\ UNCHANGED <<mvars, fvars, svars, avars>>
    \/ GoToDefinition(DefLocations(DefRanges)) /\ UNCHANGED <<mvars, fvars, svars, avars>>
    \/ OpenDefinitionFile /\ UNCHANGED <<mvars, fvars, svars, avars>>
    \/ ResolveFromDefinition /\ UNCHANGED <<mvars, fvars, svars, avars>>
    \/ Return /\ UNCHANGED <<mvars, fvars, svars, avars>>

DefinitionSpec == DefinitionInit /\ [][DefinitionNext]_vars

-----------------------------------------------------------------------------
(* Specification of the streaming completion *)

ChatInit == MailboxIdle /\ FilterIdle /\ PassIdle /\ ChatEntry /\ FanOutIdle

ChatNext ==
    \/ ProviderWrite /\ UNCHANGED <<mvars, fvars, pvars, avars>>
    \/ ProviderEnd /\ UNCHANGED <<mvars, fvars, pvars, avars>>
    \/ Cancel /\ UNCHANGED <<mvars, fvars, pvars, avars>>
    \/ UiClose /\ UNCHANGED <<mvars, fvars, pvars, avars>>
    \/ ConsumerRecv /\ UNCHANGED <<mvars, fvars, pvars, avars>>
    \/ ConsumerFinish /\ UNCHANGED <<mvars, fvars, pvars, avars>>
    \/ ConsumerAbort /\ UNCHANGED <<mvars, fvars, pvars, avars>>
    \/ AwaitLlmResponse /\ UNCHANGED <<mvars, fvars, pvars, avars>>
    \/ AwaitPolling /\ UNCHANGED <<mvars, fvars, pvars, avars>>

ChatSpec == ChatInit /\ [][ChatNext]_vars

-----------------------------------------------------------------------------
(* Specification of initial_request *)

FanOutInit == MailboxIdle /\ FilterIdle /\ PassIdle /\ ChatIdle /\ FanOutEntry

FanOutNext ==
    \/ InvokeTool /\ UNCHANGED <<mvars, fvars, pvars, svars>>
    \/ ResolvePass /\ UNCHANGED <<mvars, fvars, pvars, svars>>
    \/ PullRequest /\ UNCHANGED <<mvars, fvars, pvars, svars>>
    \/ CreateAgent(in_progress, BOOLEAN) /\ UNCHANGED <<mvars, fvars, pvars, svars>>
    \/ FanOutReturn /\ UNCHANGED <<mvars, fvars, pvars, svars>>

FanOutSpec == FanOutInit /\ [][FanOutNext]_vars

-----------------------------------------------------------------------------
(* Specification of the fan-out at its ceiling: the pass has returned about
   BufferUnordered tasks (numbered); the creations run oldest first, the order
   in which FuturesUnordered polls futures that are ready when pushed, and
   fail alternately *)

BatchSizes ==
    {BufferUnordered - 1, BufferUnordered, BufferUnordered + 1, BufferUnordered + MaxTasks}

\* line 96: `symbols` holds the tasks and the fan-out starts
FanOutStarted(batch) ==
    /\ symbol_requests = Some(batch)
    /\ pulled = 0
    /\ in_progress = {}
    /\ attempts = <<>>
    /\ agents = {}
    /\ initial_result = "running"
    /\ initial_pc = "fanout"

Oldest(creations) == {i \in creations : \A j \in creations : i <= j}

CeilingInit ==
    /\ MailboxIdle
    /\ FilterIdle
    /\ PassIdle
    /\ ChatIdle
    /\ \E n \in BatchSizes : FanOutStarted([i \in 1..n |-> i])

CeilingNext ==
    \/ PullRequest /\ UNCHANGED <<mvars, fvars, pvars, svars>>
    \/ CreateAgent(Oldest(in_progress), {Len(attempts) % 2 = 0})
          /\ UNCHANGED <<mvars, fvars, pvars, svars>>
    \/ FanOutReturn /\ UNCHANGED <<mvars, fvars, pvars, svars>>

CeilingSpec == CeilingInit /\ [][CeilingNext]_vars

-----------------------------------------------------------------------------
(* Claims about the mailbox *)

Terminal == {"Completed", "Failed"}

\* C1: every request submitted to the mailbox has its reply channel signalled
\* exactly once: never twice, every value on a channel answers the request the
\* channel was created for, and every queued request is eventually replied to.
C1_ExactlyOnceReply ==
    /\ [](\A r \in Requests :
            /\ Len(reply[r]) <= 1
            /\ \A i \in 1..Len(reply[r]) : reply[r][i].for = r
            /\ (entry[r] \in {"NotSent", "Queued"} => reply[r] = <<>>))
    /\ \A r \in Requests : (entry[r] = "Queued") ~> (Len(reply[r]) = 1)

C1_Witness ==
    /\ \A r \in Requests : Len(reply[r]) = 1 /\ entry[r] \in Terminal
    /\ \A c \in Callers : waiting[c] = 0

C3_FifoDispatch ==
    /\ IsPrefix(dequeued, submitted)
    /\ \A i \in 1..Len(dequeued) : \A j \in 1..(i - 1) :
            entry[dequeued[j]] \in Terminal /\ reply[dequeued[j]] # <<>>

C3_Witness ==
    /\ Len(dequeued) >= 2
    /\ mailbox # <<>>
    /\ entry[dequeued[Len(dequeued)]] = "Dispatched"

\* C4: at most one mailbox entry is being processed at a time.
C4_SingleDispatch ==
    Cardinality({r \in Requests : entry[r] = "Dispatched"}) <= 1

C4_Witness ==
    /\ \E r \in Requests : entry[r] = "Dispatched"
    /\ mailbox # <<>>
    /\ \A c \in Callers : waiting[c] # 0

\* the transitions of a mailbox entry
EntrySteps ==
    { <<"NotSent", "Queued">>, <<"Queued", "Dispatched">>,
      <<"Dispatched", "Completed">>, <<"Dispatched", "Failed">> }

\* C18: an entry changes state only along Queued -> Dispatched -> Completed
\* or Queued -> Dispatched -> Failed (after being enqueued): no step leaves
\* Completed or Failed, and none reaches them from a state other than
\* Dispatched.
C18_EntryStateMachine ==
    [][\A r \in Requests :
          entry'[r] # entry[r] => <<entry[r], entry'[r]>> \in EntrySteps]_vars

C18_Witness ==
    \E r, q, t \in Requests :
        /\ entry[r] = "Completed"
        /\ entry[q] = "Failed"
        /\ entry[t] = "Dispatched"

-----------------------------------------------------------------------------
(* Claims about the outline filter *)

Ranges(contents) == {contents[i].range : i \in 1..Len(contents)}

\* C9: a container whose own name is the symbol name contributes itself, once,
\* and none of its members; members are yielded only by containers whose own
\* name differs; and when no node before such a container matches, the first
\* match (the one resolution takes) is the container, not a member.
C9_ContainerPrecedence ==
    fPc = "ret" =>
        /\ \A i \in 1..Len(fOutline) :
             LET node == fOutline[i] IN
             (node.is_class /\ node.content.name = fName) =>
                 /\ Cardinality({j \in 1..Len(fResult) :
                                    fResult[j] = node.content}) = 1
                 /\ \A k \in 1..Len(node.children) :
                        node.children[k].range \notin Ranges(fResult)
                 /\ (\A h \in 1..(i - 1) : MatchNode(fOutline[h], fName) = <<>>)
                        => Head(fResult) = node.content
        /\ \A j \in 1..Len(fResult) :
             fResult[j].range[2] # 0 =>
                 /\ fOutline[fResult[j].range[1]].is_class
                 /\ fOutline[fResult[j].range[1]].content.name # fName
                 /\ fResult[j].name = fName

C9_Witness ==
    /\ fPc = "ret"
    /\ \E i \in 1..Len(fOutline) :
         /\ fOutline[i].is_class
         /\ fOutline[i].content.name = fName
         /\ \E k \in 1..Len(fOutline[i].children) :
                fOutline[i].children[k].name = fName
         /\ Head(fResult) = fOutline[i].content

-----------------------------------------------------------------------------
(* Claims about important_symbols *)

OrderedIdx == 1..Len(ordered_symbols)
RawIdx == 1..Len(symbols)
TaskNames(tasks) == {tasks[i].symbol_name : i \in 1..Len(tasks)}

\* C5: a failed tool call or a symbol that is not found while one task is
\* resolved does not abort the pass: the pass returns Ok with a list that
\* covers every merged task.
C5_NoAbortOnTaskFailure ==
    pc = "done" =>
        /\ result = "Ok"
        /\ TaskNames(mecha_symbols) = Keys(merged)

\* C6: a name that occurs classified new and also occurs as existing (in the
\* ordered list or in the raw list) has a merged task with is_new = TRUE.
C6_NewNeverDemoted ==
    pc = "pick" =>
        \A n \in Names :
            ( /\ \E i \in OrderedIdx :
                    ordered_symbols[i].code_symbol = n /\ ordered_symbols[i].is_new
              /\ \/ \E j \in OrderedIdx :
                       ordered_symbols[j].code_symbol = n /\ ~ordered_symbols[j].is_new
                 \/ \E k \in RawIdx : symbols[k].code_symbol = n )
            => \E e \in merged : e.key = n /\ e.value.is_new

IsDoubled(s) ==
    /\ Len(s) % 2 = 0
    /\ SubSeq(s, 1, Len(s) \div 2) = SubSeq(s, Len(s) \div 2 + 1, Len(s))
FirstHalf(s) == SubSeq(s, 1, Len(s) \div 2)

\* the reasoning of the raw entries naming n, in list order
RECURSIVE ThinkingsFor(_, _)
ThinkingsFor(raw, n) ==
    IF raw = <<>> THEN <<>>
    ELSE (IF Head(raw).code_symbol = n THEN <<Head(raw).thinking>> ELSE <<>>)
             \o ThinkingsFor(Tail(raw), n)

\* C8 as stated: merging with the raw hint list supplied twice produces the
\* same task set as merging with it supplied once.
C8_MergeIdempotent ==
    (pc = "pick" /\ IsDoubled(symbols)) =>
        merged = MergePass(ordered_symbols, FirstHalf(symbols)).final_code_snippets

\* C8 as amended: with the raw list supplied twice the merge yields the same
\* task names, each with the same is_new, file path and absent snippet, as
\* with the list supplied once; the reasoning steps of a task whose name was
\* never classified new are those of merging once followed by the reasoning of
\* the raw entries naming it, appended a second time.
C8_MergeTwiceAppendsTwice ==
    (pc = "pick" /\ IsDoubled(symbols)) =>
        LET once == MergePass(ordered_symbols, FirstHalf(symbols)).final_code_snippets
        IN /\ Keys(merged) = Keys(once)
           /\ \A e \in merged : \A o \in once :
                 e.key = o.key =>
                    /\ e.value.symbol_name = o.value.symbol_name
                    /\ e.value.is_new = o.value.is_new
                    /\ e.value.fs_file_path = o.value.fs_file_path
                    /\ e.value.snippet = None /\ o.value.snippet = None
                    /\ e.value.steps =
                          o.value.steps \o
                            (IF e.key \in new_symbols THEN <<>>
                             ELSE ThinkingsFor(FirstHalf(symbols), e.key))

C8_Witness ==
    /\ pc = "pick"
    /\ IsDoubled(symbols)
    /\ symbols # <<>>
    /\ \E e \in merged :
          /\ e.key = symbols[1].code_symbol
          /\ Len(e.value.steps) = 1 + Len(symbols)

\* the task whose resolution the log and the locals belong to
LogTask == IF code_snippet # NoTask THEN code_snippet
           ELSE mecha_symbols[Len(mecha_symbols)]
\* the resolution of that task has ended (pushed, or the pass returned)
TaskEnded == pc \in {"pick", "done"} /\ log # <<>>
\* the task was pushed to the list being returned
TaskPushed == TaskEnded /\ code_snippet = NoTask
Invoked(tool) == \E i \in 1..Len(log) : log[i].tool = tool

\* C10 as stated: with an outline for the hinted file, one or more direct
\* matches mean go-to-definition is never invoked for the task, and zero
\* matches for a non-new task mean it is attempted.
C10_FallbackIffNoDirectMatch ==
    /\ (outline_opt # None /\ outline_nodes # <<>>) => ~Invoked("GoToDefinition")
    /\ (TaskPushed /\ outline_opt # None /\ outline_nodes = <<>> /\ ~LogTask.is_new)
           => Invoked("GoToDefinition")

\* C10 as amended: one or more direct matches mean go-to-definition is never
\* invoked for the task; with zero matches (new task or not) it is attempted
\* exactly when the hinted file is opened again successfully and the text
\* search returns a position.
C10_FallbackOnEmptyMatchAndFoundText ==
    /\ (outline_opt # None /\ outline_nodes # <<>>) => ~Invoked("GoToDefinition")
    /\ Invoked("GoToDefinition") =>
           /\ outline_opt # None
           /\ outline_nodes = <<>>
           /\ find_in_file # None
           /\ \E i \in 2..Len(log) : log[i] = Call("OpenFile", LogTask.fs_file_path, TRUE)
    /\ (TaskEnded /\ outline_opt # None /\ outline_nodes = <<>>)
           => (Invoked("GoToDefinition") <=> find_in_file # None)

C10_Witness ==
    /\ pc = "pick"
    /\ log # <<>>
    /\ outline_opt # None
    /\ outline_nodes = <<>>
    /\ ~LogTask.is_new
    /\ Invoked("GoToDefinition")
    /\ LogTask.snippet # None
    /\ final_code_snippets # {}

\* the hint list of the scenario: a new symbol Foo (hinted at b.rs) and an
\* existing symbol Bar hinted at a.rs
ScenarioHints ==
    /\ ordered_symbols =
          <<[code_symbol |-> "Foo", is_new |-> TRUE, file_path |-> "b.rs",
             steps |-> <<"s1">>],
            [code_symbol |-> "Bar", is_new |-> FALSE, file_path |-> "a.rs",
             steps |-> <<"s1">>]>>
    /\ symbols = <<>>
\* a.rs opens and parses to an outline holding the function Bar alone (at
\* range <<1, 0>>); Foo is declared nowhere in b.rs
ScenarioFiles ==
    /\ parsed["a.rs"] \in {Unknown, Parsed(Some(<<Leaf("Bar")>>))}
    /\ parsed["b.rs"] \in {Unknown, Parsed(None), Parsed(Some(<<>>)),
                           Parsed(Some(<<Leaf("Bar")>>))}
    /\ \A i \in 1..Len(log) : log[i].file = "a.rs" => log[i].ok

\* C11: for the hints [Foo new, Bar existing in a.rs] with a.rs holding a
\* function Bar at range R, the pass returns both tasks: Foo with its snippet
\* absent and Bar with the snippet {a.rs, R}.
C11_ScenarioNewAndExisting ==
    (pc = "done" /\ ScenarioHints /\ ScenarioFiles) =>
        /\ result = "Ok"
        /\ {mecha_symbols[i] : i \in 1..Len(mecha_symbols)} =
              { NewThinking("Foo", <<"s1">>, TRUE, "b.rs"),
                set_snippet(NewThinking("Bar", <<"s1">>, FALSE, "a.rs"),
                            Snippet("Bar", <<1, 0>>, "a.rs")) }

\* C12 as stated: a task resolved through the fallback path ends with the
\* snippet {file, range} of the first definition location go-to-definition
\* returned.
C12_FallbackSnippetIsFirstDefinition ==
    (TaskPushed /\ Invoked("GoToDefinition") /\ definition # <<>>) =>
        LogTask.snippet = Some(Snippet(LogTask.symbol_name,
                                       Head(definition).range,
                                       Head(definition).file))

\* the positions <<node, member>> (member 0 is the node itself) of the
\* declarations the container-aware filter keeps for `symbol_name`
MatchPositions(shape, symbol_name) ==
    {<<i, 0>> : i \in {j \in 1..Len(shape) : shape[j].name = symbol_name}}
    \cup {p \in (1..Len(shape)) \X (1..MaxChildren) :
             /\ shape[p[1]].is_class
             /\ shape[p[1]].name # symbol_name
             /\ p[2] <= Len(shape[p[1]].children)
             /\ shape[p[1]].children[p[2]] = symbol_name}
FirstPosition(positions) ==
    CHOOSE p \in positions :
        \A q \in positions : p[1] < q[1] \/ (p[1] = q[1] /\ p[2] <= q[2])

\* C12 as amended: a task resolved through the fallback path ends with a
\* snippet in the file of the first definition location returned, at the
\* range of the first declaration of the symbol's name that the
\* container-aware filter keeps in that file's outline (the range of the
\* definition location is not used).
C12_FallbackSnippetIsFirstDeclaration ==
    (TaskPushed /\ Invoked("GoToDefinition")) =>
        /\ definition # <<>>
        /\ parsed[Head(definition).file].shape # None
        /\ LET file == Head(definition).file
               positions == MatchPositions(parsed[file].shape[1], LogTask.symbol_name)
           IN /\ positions # {}
              /\ LogTask.snippet = Some(Snippet(LogTask.symbol_name,
                                                FirstPosition(positions), file))

C12_Witness ==
    /\ TaskPushed
    /\ Invoked("GoToDefinition")
    /\ LogTask.symbol_name = "Bar"
    /\ LogTask.fs_file_path = "a.rs"
    /\ Len(definition) = 2
    /\ definition[1] = [file |-> "b.rs", range |-> <<2, 0>>]
    /\ definition[2].file = "a.rs"
    /\ LogTask.snippet = Some(Snippet("Bar", <<1, 2>>, "b.rs"))

\* C13: invoke returns only after the wrapped producer has resolved and the
\* consumer task has ended; a returned reply comes after the consumer drained
\* the delta channel to its close and is the answer_up_until_now of the last
\* message it received (the empty text if it received none).
C13_ReplyAfterBothFinished ==
    chat_pc = "returned" =>
        /\ llm_response \in {"Completed", "Cancelled"}
        /\ polling_llm_response \in {"finished", "failed"}
        /\ chat_result.kind = "Ok" =>
              /\ polling_llm_response = "finished"
              /\ stream_completion # "running"
              /\ receiver = <<>>
              /\ chat_result.reply = WrittenText

C13_Witness ==
    /\ chat_pc = "returned"
    /\ chat_result.kind = "Ok"
    /\ llm_response = "Cancelled"
    /\ Len(written) >= 2
    /\ chat_result.reply = written[Len(written)].answer_up_until_now

\* C14: while the consumer runs, the messages handed to the sink followed by
\* the messages still in the channel are the messages the provider call
\* wrote, in their order; once the consumer has finished every written
\* message has been handed to the sink exactly once, in channel order,
\* cancelled or not, and a sink whose receiving end exists has received them.
C14_EveryMessageForwardedInOrder ==
    /\ polling_llm_response = "running" => ui_sender \o receiver = written
    /\ polling_llm_response = "finished" => ui_sender = written
    /\ ui_open => ui_received = ui_sender

C14_Witness ==
    /\ polling_llm_response = "finished"
    /\ llm_response = "Cancelled"
    /\ cancel_point # NoCancel
    /\ cancel_point[1].written = 0
    /\ Len(written) >= 2
    /\ ui_sender = written
    /\ ui_open

\* cancellation was requested after the first message was written and before
\* the provider call ended
CancelledMidStream ==
    /\ cancel_point # NoCancel
    /\ cancel_point[1].running
    /\ cancel_point[1].written >= 1

\* C15: when cancellation is requested mid-stream, the reply of a joined
\* consumer is non-empty and is the answer_up_until_now of the last message
\* written before the delta channel closed.
C15_CompleteAnswerUnderCancellation ==
    (chat_pc = "returned" /\ CancelledMidStream /\ polling_llm_response = "finished") =>
        /\ chat_result.kind = "Ok"
        /\ chat_result.reply # EmptyAnswer
        /\ chat_result.reply = written[Len(written)].answer_up_until_now
        /\ chat_result.reply = ui_sender[Len(ui_sender)].answer_up_until_now

C15_Witness ==
    /\ chat_pc = "returned"
    /\ CancelledMidStream
    /\ llm_response = "Cancelled"
    /\ stream_completion = "Err"
    /\ cancel_point[1].written < Len(written)
    /\ chat_result = ChatReply(written[Len(written)].answer_up_until_now)

\* C16: from the point where the stream is set up, invoke returns
\* RetriesExhausted, carrying no reply, exactly when the consumer task could
\* not be joined; otherwise it returns a successful reply holding the
\* consumer's answer, whatever the outcome of the provider call.
C16_RetriesExhaustedIffJoinFails ==
    chat_pc = "returned" =>
        /\ polling_llm_response = "failed" => chat_result = RetriesExhausted
        /\ polling_llm_response # "failed" =>
              /\ chat_result.kind = "Ok"
              /\ chat_result.reply = answer_up_until_now

C16_Witness ==
    /\ chat_pc = "returned"
    /\ polling_llm_response = "failed"
    /\ answer_up_until_now # EmptyAnswer
    /\ chat_result.kind = "RetriesExhausted"
    /\ chat_result.reply = EmptyAnswer

\* the resolution pass returned its tasks and initial_request has returned
FanOutDone == initial_pc = "done" /\ symbol_requests # None

\* C17: once the pass has returned its tasks, initial_request returns Ok
\* after create_symbol_agent was called exactly once for every task, failed
\* creations included, and the agents that exist are those whose creation
\* succeeded; at every moment the calls made are calls for distinct tasks of
\* the pass (in any order).
C17_FanOutIsolatesFailures ==
    /\ symbol_requests # None =>
          /\ \A k \in 1..Len(attempts) :
                \E i \in 1..Len(symbol_requests[1]) : attempts[k].task = symbol_requests[1][i]
          /\ \A k, l \in 1..Len(attempts) : k # l => attempts[k].task # attempts[l].task
          /\ agents = {attempts[k].task : k \in {j \in 1..Len(attempts) : attempts[j].ok}}
    /\ FanOutDone =>
          /\ initial_result = "Ok"
          /\ {attempts[k].task : k \in 1..Len(attempts)} =
                 {symbol_requests[1][i] : i \in 1..Len(symbol_requests[1])}

C17_Witness ==
    /\ FanOutDone
    /\ initial_result = "Ok"
    /\ Len(symbol_requests[1]) = 3
    /\ Len(attempts) = 3
    /\ attempts[1].task = symbol_requests[1][2]
    /\ ~attempts[1].ok
    /\ attempts[2].ok
    /\ ~attempts[3].ok

\* the text search of the current task found no occurrence of the name
NoOccurrence == Invoked("FindInFile") /\ find_in_file = None
\* go-to-definition answered the current task with an empty list
NoDefinition ==
    /\ \E i \in 1..Len(log) : log[i].tool = "GoToDefinition" /\ log[i].ok
    /\ definition = <<>>

\* C19: a task whose text search finds no occurrence, or whose
\* go-to-definition call returns an empty list, ends its resolution pushed to
\* the result with its snippet absent, and the pass has not failed.
C19_EmptyFallbackIsNonFatal ==
    (pc \in {"pick", "done"} /\ (NoOccurrence \/ NoDefinition)) =>
        /\ TaskPushed
        /\ LogTask.snippet = None
        /\ result \in {"running", "Ok"}

\* the reasoning steps of the ordered entries naming n, in list order
RECURSIVE StepsFor(_, _)
StepsFor(ordered, n) ==
    IF ordered = <<>> THEN <<>>
    ELSE (IF Head(ordered).code_symbol = n THEN Head(ordered).steps ELSE <<>>)
             \o StepsFor(Tail(ordered), n)

\* C20: every entry that names a task again adds its reasoning after the
\* steps already recorded, so the merged task of a name holds the reasoning of
\* all the entries naming it, in the order the merge pass saw them.
C20_MergeAccumulatesReasoning ==
    pc = "pick" =>
        \A e \in merged :
            e.value.steps = StepsFor(ordered_symbols, e.key) \o ThinkingsFor(symbols, e.key)

\* C21: a task with one or more direct matches is pushed with the snippet of
\* the first of them: its name, its range (the first position the
\* container-aware filter keeps in the outline of the hinted file) and the
\* hinted file, whatever matches follow.
C21_FirstMatchWins ==
    (TaskPushed /\ outline_nodes # <<>>) =>
        /\ LogTask.snippet = Some(Snippet(outline_nodes[1].name, outline_nodes[1].range,
                                          outline_nodes[1].fs_file_path))
        /\ LogTask.snippet[1].name = LogTask.symbol_name
        /\ LogTask.snippet[1].fs_file_path = LogTask.fs_file_path
        /\ LogTask.snippet[1].range =
              FirstPosition(MatchPositions(parsed[LogTask.fs_file_path].shape[1],
                                           LogTask.symbol_name))

C21_Witness ==
    /\ TaskPushed
    /\ Len(outline_nodes) = 3
    /\ outline_nodes[2].range # outline_nodes[1].range
    /\ LogTask.snippet = Some(Snippet("Foo", <<1, 1>>, LogTask.fs_file_path))

\* the outline fetch of the current task found no outline for its hinted file
NoOutline ==
    /\ Len(log) = 2
    /\ log[2] = Call("GetOutline", LogTask.fs_file_path, FALSE)

\* C22: a task (new or not) whose hinted file was opened and has no outline
\* ends its resolution after the outline fetch, pushed to the result with its
\* snippet absent, and the pass has not failed; every task pushed for a file
\* without outline has its snippet absent, and a pass that returns Ok returns
\* every such task.
C22_NoOutlineIsNonFatal ==
    /\ (pc \in {"pick", "done"} /\ Invoked("GetOutline") /\ outline_opt = None) =>
          /\ NoOutline
          /\ log[1] = Call("OpenFile", LogTask.fs_file_path, TRUE)
          /\ TaskPushed
          /\ LogTask.snippet = None
          /\ result \in {"running", "Ok"}
    /\ \A i \in 1..Len(mecha_symbols) :
          parsed[mecha_symbols[i].fs_file_path] = Parsed(None) =>
              mecha_symbols[i].snippet = None
    /\ (pc = "done" /\ result = "Ok") =>
          \A e \in merged :
              parsed[e.value.fs_file_path] = Parsed(None) =>
                  \E i \in 1..Len(mecha_symbols) : mecha_symbols[i] = e.value

C22_Witness ==
    /\ pc = "done"
    /\ result = "Ok"
    /\ Len(mecha_symbols) = 2
    /\ ~mecha_symbols[1].is_new
    /\ parsed[mecha_symbols[1].fs_file_path] = Parsed(None)
    /\ mecha_symbols[1].snippet = None
    /\ mecha_symbols[2].snippet # None

\* C23: every outline fetch a task's resolution issues, for the hinted file
\* or for the defined-at file, comes after a successful OpenFile call for the
\* same file issued for the same task.
C23_OpenBeforeOutline ==
    \A i \in 1..Len(log) :
        log[i].tool = "GetOutline" =>
            \E j \in 1..(i - 1) : log[j] = Call("OpenFile", log[i].file, TRUE)

C23_Witness ==
    /\ TaskPushed
    /\ Len(log) = 7
    /\ log[2].tool = "GetOutline"
    /\ log[7].tool = "GetOutline"
    /\ log[7].file # log[2].file
    /\ LogTask.snippet # None

\* a task without its snippet: name, is_new, reasoning steps, hinted file
Hint(task) == [task EXCEPT !.snippet = None]
\* the tasks of the pass wherever they are: waiting in the map, being
\* resolved, or pushed to the result
PassTasks ==
    {e.value : e \in final_code_snippets}
        \cup (IF code_snippet = NoTask THEN {} ELSE {code_snippet})
        \cup {mecha_symbols[i] : i \in 1..Len(mecha_symbols)}

\* C24: while the hint lists are being walked no call of the resolution has
\* been issued and no task is being resolved or pushed; resolution runs only
\* after both lists were walked to their end, starting from the task set the
\* two walks make of the lists, and from then on the tasks of the pass are,
\* but for their snippets, the tasks the merge produced.
C24_MergeBeforeResolution ==
    /\ pc = "merge" =>
          /\ log = <<>>
          /\ code_snippet = NoTask
          /\ mecha_symbols = <<>>
          /\ \A f \in Files : parsed[f] = Unknown
    /\ (pc = "pick" /\ mecha_symbols = <<>>) =>
          merged = MergePass(ordered_symbols, symbols).final_code_snippets
    /\ pc # "merge" =>
          /\ oi = Len(ordered_symbols) + 1
          /\ ri = Len(symbols) + 1
          /\ {Hint(t) : t \in PassTasks} = {e.value : e \in merged}

C24_Witness ==
    /\ pc = "gtd"
    /\ Len(mecha_symbols) = 1
    /\ symbols # <<>>
    /\ Len(code_snippet.steps) = 2

\* C25: the merge creates every task with its snippet absent; during the
\* resolution every task of the pass stays in the pass, a task changes only by
\* having its absent snippet set, and a task whose snippet is present is
\* never changed again.
C25_SnippetSetAtMostOnce ==
    /\ [](pc = "merge" => \A e \in final_code_snippets : e.value.snippet = None)
    /\ [](\A e \in merged : e.value.snippet = None)
    /\ [][pc # "merge" =>
             \A t \in PassTasks :
                 \E u \in PassTasks' :
                     /\ Hint(u) = Hint(t)
                     /\ t.snippet # None => u = t]_vars

C25_Witness ==
    /\ pc = "done"
    /\ result = "Ok"
    /\ Len(mecha_symbols) = 2
    /\ mecha_symbols[1].snippet # None
    /\ mecha_symbols[2].snippet # None
    /\ Invoked("GoToDefinition")

\* C26: whatever the number of tasks, at most 100 creations are in progress
\* at any time.
C26_AtMostHundredInFlight ==
    Cardinality(in_progress) <= 100

C26_Witness ==
    /\ Cardinality(in_progress) = 100
    /\ pulled > 100
    /\ pulled < Len(symbol_requests[1])
    /\ attempts # <<>>

\* C27: invoke has returned only if the provider call has ended (which drops
\* the only sender and closes the delta channel), cancelled or not; the one
\* return that does not wait for it is the failed join of the consumer task.
\* So while the provider call runs, and for ever if it never ends, a
\* cancelled invoke whose consumer is alive has not returned.
C27_CancellationAloneDoesNotReturn ==
    chat_pc = "returned" =>
        \/ stream_completion # "running"
        \/ polling_llm_response = "failed"

C27_Witness ==
    /\ cancellation_token
    /\ llm_response = "Cancelled"
    /\ chat_pc = "await_polling"
    /\ stream_completion = "running"
    /\ polling_llm_response = "running"
    /\ receiver = <<>>
    /\ ui_sender # <<>>

\* C28: whether the provider call returned Ok or Err and whether the wrapper
\* resolved by completion or by cancellation, invoke with a joined consumer
\* returns a successful reply holding the consumer's answer (possibly
\* empty); the only error invoke returns is RetriesExhausted.
C28_ProducerOutcomeNotReturned ==
    chat_pc = "returned" =>
        /\ chat_result.kind \in {"Ok", "RetriesExhausted"}
        /\ polling_llm_response = "finished" =>
              \A outcome \in ProviderOutcomes, wrapper \in {"Completed", "Cancelled"} :
                  (stream_completion = outcome /\ llm_response = wrapper) =>
                      chat_result = ChatReply(answer_up_until_now)

C28_Witness ==
    /\ chat_pc = "returned"
    /\ stream_completion = "Err"
    /\ llm_response = "Completed"
    /\ ~cancellation_token
    /\ chat_result = ChatReply(EmptyAnswer)

\* the names of the ordered hint list, and the names only the raw list holds
OrderedNames == {ordered_symbols[i].code_symbol : i \in OrderedIdx}
RawOnlyNames == {symbols[k].code_symbol : k \in RawIdx} \ OrderedNames

\* C29: the merge produces one task per distinct name of the ordered list
\* and no other; a name that only the raw list holds is in the to-visit set
\* but is never a task of the pass, neither resolved nor returned.
C29_TasksAreOrderedNames ==
    pc # "merge" =>
        /\ Keys(merged) = OrderedNames
        /\ {t.symbol_name : t \in PassTasks} = OrderedNames
        /\ \A n \in RawOnlyNames :
              /\ n \in symbols_to_visit
              /\ n \notin new_symbols
              /\ n \notin TaskNames(mecha_symbols)
              /\ code_snippet.symbol_name # n

C29_Witness ==
    /\ pc = "done"
    /\ result = "Ok"
    /\ RawOnlyNames # {}
    /\ Len(mecha_symbols) = 1
    /\ mecha_symbols[1].snippet # None

\* the position of the last entry of the ordered hint list naming n
LastOccurrence(n) ==
    CHOOSE i \in OrderedIdx :
        /\ ordered_symbols[i].code_symbol = n
        /\ \A j \in OrderedIdx : ordered_symbols[j].code_symbol = n => j <= i

\* C30: of several ordered entries with one name the last one wins: while
\* the ordered list is walked the task of a name is the task built from the
\* latest entry seen, and the merged task has the isNew flag and the file
\* path of the last entry and starts with the reasoning steps of that entry
\* alone (followed only by what the raw walk appends).
C30_LastOccurrenceWins ==
    /\ (pc = "merge" /\ ri = 1) =>
          \A i \in 1..(oi - 1) :
              (\A j \in (i + 1)..(oi - 1) :
                    ordered_symbols[j].code_symbol # ordered_symbols[i].code_symbol)
              => [key |-> ordered_symbols[i].code_symbol,
                  value |-> NewThinking(ordered_symbols[i].code_symbol,
                                        ordered_symbols[i].steps,
                                        ordered_symbols[i].is_new,
                                        ordered_symbols[i].file_path)]
                     \in final_code_snippets
    /\ pc = "pick" =>
          \A n \in OrderedNames :
              LET last == ordered_symbols[LastOccurrence(n)] IN
              \E e \in merged :
                  /\ e.key = n
                  /\ e.value.is_new = last.is_new
                  /\ e.value.fs_file_path = last.file_path
                  /\ e.value.steps =
                        last.steps \o (IF n \in new_symbols THEN <<>>
                                       ELSE ThinkingsFor(symbols, n))

C30_Witness ==
    /\ pc = "pick"
    /\ Len(ordered_symbols) = 2
    /\ ordered_symbols[1].code_symbol = ordered_symbols[2].code_symbol
    /\ ordered_symbols[1].is_new /\ ~ordered_symbols[2].is_new
    /\ ordered_symbols[1].file_path # ordered_symbols[2].file_path
    /\ ordered_symbols[1].steps # ordered_symbols[2].steps
    /\ \E e \in merged :
          /\ e.key = ordered_symbols[2].code_symbol
          /\ ~e.value.is_new
          /\ e.value.fs_file_path = ordered_symbols[2].file_path
          /\ e.value.steps = ordered_symbols[2].steps

\* C31: in every state of a pass a task whose snippet is present has a
\* snippet named as the task itself, whether the snippet came from a direct
\* match in the hinted file or from the go-to-definition fallback; a snippet
\* set by the fallback lies in the file of the first definition returned.
C31_SnippetNamedAsTask ==
    /\ \A t \in PassTasks :
          t.snippet # None => t.snippet[1].name = t.symbol_name
    /\ (TaskPushed /\ ~Invoked("GoToDefinition") /\ LogTask.snippet # None) =>
          /\ outline_nodes # <<>>
          /\ LogTask.snippet[1].fs_file_path = LogTask.fs_file_path
    /\ (TaskPushed /\ Invoked("GoToDefinition")) =>
          /\ LogTask.snippet # None
          /\ definition # <<>>
          /\ LogTask.snippet[1].fs_file_path = Head(definition).file

C31_Witness ==
    /\ pc = "done"
    /\ result = "Ok"
    /\ Invoked("GoToDefinition")
    /\ Len(definition) = 2
    /\ definition[1].file # definition[2].file
    /\ definition[1].file # mecha_symbols[1].fs_file_path
    /\ mecha_symbols[1].snippet # None
    /\ mecha_symbols[1].snippet[1].name = mecha_symbols[1].symbol_name
    /\ mecha_symbols[1].snippet[1].fs_file_path = definition[1].file

====
